---- MODULE Spec2Model ----
(***************************************************************************)
(* Model of main.py: the command line driver `main` and the control-flow   *)
(* diagram builder `generate_cfg`, which walks the syntax tree returned by *)
(* ast.parse with ast.walk and appends node and edge lines to the body of  *)
(* a graphviz Digraph.                                                      *)
(***************************************************************************)
EXTENDS Integers, Sequences, FiniteSets, TLC

\* Largest number of statements in an analysed module.
MaxStmts == 4

(***************************************************************************)
(* Syntax trees.  A module is a sequence of statements in document order;  *)
(* statement i records its class, the statement that contains it (0 is the *)
(* Module), the field of the parent that holds it and, for a function, its  *)
(* name.                                                                    *)
(***************************************************************************)
Compound == {"FunctionDef", "If", "While", "For", "ClassDef"}
Simple == {"Assign"}
HasOrelse == {"If", "While", "For"}
FuncNames == {"f"}

RECURSIVE Ancestors(_, _)
Ancestors(t, i) == IF i = 0 THEN {0} ELSE {i} \cup Ancestors(t, t[i].parent)

HasBody(t, i) == \E j \in 1..Len(t) : t[j].parent = i /\ t[j].field = "body"
HasElse(t, i) == \E j \in 1..Len(t) : t[j].parent = i /\ t[j].field = "orelse"

\* The grammar gives every compound statement a non-empty body.
Complete(t, i) == t[i].kind \in Compound => HasBody(t, i)

NamesFor(k) == IF k = "FunctionDef" THEN FuncNames ELSE {""}

\* All ways to write one more statement after the statements of t.
ExtendTree(t) ==
  LET rp == Ancestors(t, Len(t))
      ok(k, p, f) ==
        /\ p = 0 \/ t[p].kind \in Compound
        /\ f = "orelse" => p # 0 /\ t[p].kind \in HasOrelse /\ HasBody(t, p)
        /\ f = "body" => p = 0 \/ ~HasElse(t, p)
        /\ \A i \in rp \ Ancestors(t, p) : Complete(t, i)
  IN UNION { { Append(t, [kind |-> x[1], parent |-> x[2], field |-> x[3], name |-> nm]) :
                 nm \in NamesFor(x[1]) } :
             x \in { y \in (Compound \cup Simple) \X rp \X {"body", "orelse"} :
                       ok(y[1], y[2], y[3]) } }

RECURSIVE Partial(_)
Partial(n) == IF n = 0 THEN {<<>>} ELSE UNION { ExtendTree(t) : t \in Partial(n - 1) }

\* The trees ast.parse can return for a module of at most MaxStmts statements.
Trees == UNION { { t \in Partial(n) : \A i \in 1..n : Complete(t, i) } : n \in 0..MaxStmts }

(***************************************************************************)
(* Nodes of a tree.  [s |-> i, e |-> 0] is statement i (the Module for     *)
(* i = 0), [s |-> i, e |-> k] its k-th expression child, and s = -1 are    *)
(* the expression contexts Load and Store, each a single object shared by  *)
(* every Name of the tree.                                                  *)
(***************************************************************************)
ModuleNode == [s |-> 0, e |-> 0]
Stmt(i) == [s |-> i, e |-> 0]
LoadNode == [s |-> -1, e |-> 1]
StoreNode == [s |-> -1, e |-> 2]
CtxNode(c) == IF c = "Load" THEN LoadNode ELSE StoreNode

Name(f, c) == [field |-> f, kind |-> "Name", ctx |-> c]

\* The expression fields of a statement class, in _fields order.
ExprFields(k) ==
  CASE k = "FunctionDef" -> << [field |-> "args", kind |-> "arguments", ctx |-> ""] >>
    [] k \in {"If", "While"} -> << Name("test", "Load") >>
    [] k = "For" -> << Name("target", "Store"), Name("iter", "Load") >>
    [] k = "Assign" -> << Name("targets", "Store"),
                          [field |-> "value", kind |-> "Constant", ctx |-> ""] >>
    [] OTHER -> << >>

StmtKind(t, i) == IF i = 0 THEN "Module" ELSE t[i].kind

KindOf(t, n) ==
  IF n.s = -1 THEN (IF n.e = 1 THEN "Load" ELSE "Store")
  ELSE IF n.e = 0 THEN StmtKind(t, n.s)
  ELSE ExprFields(StmtKind(t, n.s))[n.e].kind

RECURSIVE SortedSeq(_)
SortedSeq(S) ==
  IF S = {} THEN << >>
  ELSE LET m == CHOOSE x \in S : \A y \in S : x <= y
       IN << m >> \o SortedSeq(S \ {m})

\* node.body and node.orelse of statement i (i = 0: the Module's body).
Body(t, i) == SortedSeq({ j \in 1..Len(t) : t[j].parent = i /\ t[j].field = "body" })
Orelse(t, i) == SortedSeq({ j \in 1..Len(t) : t[j].parent = i /\ t[j].field = "orelse" })

\* ast.iter_child_nodes: the child nodes of n, field by field.
IterChildNodes(t, n) ==
  IF n.s = -1 THEN << >>
  ELSE IF n.e # 0
    THEN LET x == ExprFields(StmtKind(t, n.s))[n.e]
         IN IF x.ctx = "" THEN << >> ELSE << CtxNode(x.ctx) >>
  ELSE LET xs == ExprFields(StmtKind(t, n.s))
       IN [k \in 1..Len(xs) |-> [s |-> n.s, e |-> k]]
          \o [k \in 1..Len(Body(t, n.s)) |-> Stmt(Body(t, n.s)[k])]
          \o [k \in 1..Len(Orelse(t, n.s)) |-> Stmt(Orelse(t, n.s)[k])]

\* ast.dump: the class of the node and the dumps of its fields.
RECURSIVE Dump(_, _)
Dump(t, n) ==
  IF n.s = -1 \/ n.e # 0
    THEN LET kids == IterChildNodes(t, n)
         IN << KindOf(t, n), [k \in 1..Len(kids) |-> Dump(t, kids[k])], << >>, << >> >>
  ELSE LET xs == ExprFields(StmtKind(t, n.s))
       IN << KindOf(t, n),
             [k \in 1..Len(xs) |-> Dump(t, [s |-> n.s, e |-> k])],
             [k \in 1..Len(Body(t, n.s)) |-> Dump(t, Stmt(Body(t, n.s)[k]))],
             [k \in 1..Len(Orelse(t, n.s)) |-> Dump(t, Stmt(Orelse(t, n.s)[k]))] >>

(***************************************************************************)
(* Object identities.  id() is the address of the object; the addresses    *)
(* of the objects of one parse are distinct and differ from run to run.    *)
(***************************************************************************)
IdSchemes == { [base |-> 1000, dir |-> 1], [base |-> 2000, dir |-> -1] }

Id(sch, n) == sch.base + sch.dir * (3 * n.s + n.e)

Digit(d) == CASE d = 0 -> "0" [] d = 1 -> "1" [] d = 2 -> "2" [] d = 3 -> "3"
              [] d = 4 -> "4" [] d = 5 -> "5" [] d = 6 -> "6" [] d = 7 -> "7"
              [] d = 8 -> "8" [] d = 9 -> "9"

\* str() of a non-negative integer: its decimal digits.
RECURSIVE Str(_)
Str(n) == IF n < 10 THEN << Digit(n) >> ELSE Append(Str(n \div 10), Digit(n % 10))

(***************************************************************************)
(* The graph: the lines of dot.body.                                        *)
(***************************************************************************)
NodeLine(node_id, label) == << "node", node_id, label >>
EdgeLine(tail, head) == << "edge", tail, head >>

\* add_cfg_node returns the key under which it declared the node.
NodeId(sch, n) == Str(Id(sch, n))

FunctionLabel(t, i) == << "Function: ", << t[i].name >> >>
IfLabel(t, i) == << "If Condition: ", Dump(t, [s |-> i, e |-> 1]) >>
WhileLabel(t, i) == << "While Loop: ", Dump(t, [s |-> i, e |-> 1]) >>
\* Mutant: the for-loop labelled with what it iterates over, not its target.
ForLabelIter(t, i) == << "For Loop: ", Dump(t, [s |-> i, e |-> 2]) >>
ForLabel(t, i) == << "For Loop: ", Dump(t, [s |-> i, e |-> 1]) >>
StatementLabel(t, j) == << "Statement: ", Dump(t, Stmt(j)) >>
\* Mutant: the else-branch statements labelled like those of the body.
ElseStatementLabelPlain(t, j) == << "Statement: ", Dump(t, Stmt(j)) >>
ElseStatementLabel(t, j) == << "Else Statement: ", Dump(t, Stmt(j)) >>

RECURSIVE Flatten(_)
Flatten(ss) == IF ss = << >> THEN << >> ELSE Head(ss) \o Flatten(Tail(ss))

\* Mutant: every edge drawn from the statement to its construct.
ChildrenReversed(t, sch, from, stmts, pfx) ==
  Flatten([k \in 1..Len(stmts) |->
            << NodeLine(NodeId(sch, Stmt(stmts[k])),
                        IF pfx = "else" THEN << "Else Statement: ", Dump(t, Stmt(stmts[k])) >>
                                        ELSE << "Statement: ", Dump(t, Stmt(stmts[k])) >>),
               EdgeLine(NodeId(sch, Stmt(stmts[k])), NodeId(sch, Stmt(from))) >>])

\* Mutant: the statements of a body chained one after the other.
ChildrenChained(t, sch, from, stmts, pfx) ==
  Flatten([k \in 1..Len(stmts) |->
            << NodeLine(NodeId(sch, Stmt(stmts[k])),
                        IF pfx = "else" THEN << "Else Statement: ", Dump(t, Stmt(stmts[k])) >>
                                        ELSE << "Statement: ", Dump(t, Stmt(stmts[k])) >>),
               EdgeLine(NodeId(sch, Stmt(IF k = 1 THEN from ELSE stmts[k - 1])),
                        NodeId(sch, Stmt(stmts[k]))) >>])

\* Mutant: a statement labelled with the repr of its object, which holds its
\* address, instead of its dump.
ChildrenLabelledByRepr(t, sch, from, stmts, pfx) ==
  Flatten([k \in 1..Len(stmts) |->
            << NodeLine(NodeId(sch, Stmt(stmts[k])),
                        << IF pfx = "else" THEN "Else Statement: " ELSE "Statement: ",
                           << StmtKind(t, stmts[k]), NodeId(sch, Stmt(stmts[k])) >> >>),
               EdgeLine(NodeId(sch, Stmt(from)), NodeId(sch, Stmt(stmts[k]))) >>])

\* One inner loop: a node line and an edge line per statement of stmts.
Children(t, sch, from, stmts, pfx) ==
  Flatten([k \in 1..Len(stmts) |->
            << NodeLine(NodeId(sch, Stmt(stmts[k])),
                        IF pfx = "else" THEN ElseStatementLabel(t, stmts[k])
                                        ELSE StatementLabel(t, stmts[k])),
               EdgeLine(NodeId(sch, Stmt(from)), NodeId(sch, Stmt(stmts[k]))) >>])

\* Mutant: the loop over node.orelse of an if is missing.
EmitNoElse(t, sch, n) ==
  LET k == KindOf(t, n)
      i == n.s
  IN IF k \in {"FunctionDef", "If", "While", "For"}
       THEN << NodeLine(NodeId(sch, n),
                        CASE k = "FunctionDef" -> << "Function: ", << t[i].name >> >>
                          [] k = "If" -> << "If Condition: ", Dump(t, [s |-> i, e |-> 1]) >>
                          [] k = "While" -> << "While Loop: ", Dump(t, [s |-> i, e |-> 1]) >>
                          [] k = "For" -> << "For Loop: ", Dump(t, [s |-> i, e |-> 1]) >>) >>
            \o Flatten([j \in 1..Len(Body(t, i)) |->
                  << NodeLine(NodeId(sch, Stmt(Body(t, i)[j])),
                              << "Statement: ", Dump(t, Stmt(Body(t, i)[j])) >>),
                     EdgeLine(NodeId(sch, n), NodeId(sch, Stmt(Body(t, i)[j]))) >>])
       ELSE << >>

\* Mutant: a class definition handled like a function definition.
EmitClassDef(t, sch, n) ==
  LET k == KindOf(t, n)
      i == n.s
      kids(stmts, pfx) ==
        Flatten([j \in 1..Len(stmts) |->
          << NodeLine(NodeId(sch, Stmt(stmts[j])), << pfx, Dump(t, Stmt(stmts[j])) >>),
             EdgeLine(NodeId(sch, n), NodeId(sch, Stmt(stmts[j]))) >>])
  IN CASE k \in {"FunctionDef", "ClassDef"} ->
            << NodeLine(NodeId(sch, n), << "Function: ", << t[i].name >> >>) >>
              \o kids(Body(t, i), "Statement: ")
       [] k = "If" ->
            << NodeLine(NodeId(sch, n), << "If Condition: ", Dump(t, [s |-> i, e |-> 1]) >>) >>
              \o kids(Body(t, i), "Statement: ") \o kids(Orelse(t, i), "Else Statement: ")
       [] k = "While" ->
            << NodeLine(NodeId(sch, n), << "While Loop: ", Dump(t, [s |-> i, e |-> 1]) >>) >>
              \o kids(Body(t, i), "Statement: ")
       [] k = "For" ->
            << NodeLine(NodeId(sch, n), << "For Loop: ", Dump(t, [s |-> i, e |-> 1]) >>) >>
              \o kids(Body(t, i), "Statement: ")
       [] OTHER -> << >>

\* The lines one iteration of the loop over ast.walk appends for node n.
Emit(t, sch, n) ==
  LET k == KindOf(t, n)
      i == n.s
  IN CASE k = "FunctionDef" ->
            << NodeLine(NodeId(sch, n), FunctionLabel(t, i)) >>
              \o Children(t, sch, i, Body(t, i), "body")
       [] k = "If" ->
            << NodeLine(NodeId(sch, n), IfLabel(t, i)) >>
              \o Children(t, sch, i, Body(t, i), "body")
              \o Children(t, sch, i, Orelse(t, i), "else")
       [] k = "While" ->
            << NodeLine(NodeId(sch, n), WhileLabel(t, i)) >>
              \o Children(t, sch, i, Body(t, i), "body")
       [] k = "For" ->
            << NodeLine(NodeId(sch, n), ForLabel(t, i)) >>
              \o Children(t, sch, i, Body(t, i), "body")
       [] OTHER -> << >>

\* Mutant: the children pushed on the left end, a depth-first walk.
ExtendLeft(q, kids) == kids \o q

\* Mutant: the children queued twice, so the walk comes back to them.
ExtendTwice(q, kids) == q \o kids \o kids

\* deque.extend: the children join the right end of the queue.
Extend(q, kids) == q \o kids

(***************************************************************************)
(* State.                                                                   *)
(***************************************************************************)
VARIABLES
  pc,         \* where the process is
  argc,       \* len(sys.argv)
  isfile,     \* os.path.isfile(sys.argv[1])
  code,       \* the text load_code returned
  exit_code,  \* the exit status of the process, -1 while it runs
  files,      \* the image files written so far
  tree,       \* ast.parse(code)
  ids,        \* the addresses of the objects of tree
  todo,       \* the deque of ast.walk
  visited,    \* the nodes ast.walk has yielded, in order
  body,       \* dot.body
  runs        \* the graphs generate_cfg has returned

vars == << pc, argc, isfile, code, exit_code, files, tree, ids, todo, visited, body, runs >>

\* Before the first parse there are no node objects.
NoIds == [base |-> 0, dir |-> 1]
NotLoaded == [loaded |-> FALSE, valid |-> FALSE, ast |-> << >>]
Images == {"cfg.png", "memory_allocation.png", "pointers.png"}

Init ==
  /\ pc = "main"
  /\ argc \in {1, 2}
  /\ isfile \in BOOLEAN
  /\ code = NotLoaded
  /\ exit_code = -1
  /\ files = {}
  /\ tree = << >>
  /\ ids = NoIds
  /\ todo = << >>
  /\ visited = << >>
  /\ body = << >>
  /\ runs = << >>

env == << argc, isfile >>
cfg == << tree, ids, todo, visited, body, runs >>

(***************************************************************************)
(* main                                                                     *)
(***************************************************************************)
\* len(sys.argv) < 2: usage message, sys.exit(1).
MainUsage ==
  /\ pc = "main"
  /\ argc < 2
  /\ pc' = "exited"
  /\ exit_code' = 1
  /\ UNCHANGED << env, code, files, cfg >>

\* not os.path.isfile(input_file): message, sys.exit(1).
MainFileNotFound ==
  /\ pc = "main"
  /\ argc >= 2
  /\ ~isfile
  /\ pc' = "exited"
  /\ exit_code' = 1
  /\ UNCHANGED << env, code, files, cfg >>

\* code = load_code(input_file): any text, a valid module or not.
MainLoadCode ==
  /\ pc = "main"
  /\ argc >= 2
  /\ isfile
  /\ \/ \E t \in Trees : code' = [loaded |-> TRUE, valid |-> TRUE, ast |-> t]
     \/ code' = [loaded |-> TRUE, valid |-> FALSE, ast |-> << >>]
  /\ pc' = "generate_cfg"
  /\ UNCHANGED << env, exit_code, files, cfg >>

\* ast.parse raises SyntaxError: traceback, exit status 1.
ParseRaises ==
  /\ pc = "generate_cfg"
  /\ ~code.valid
  /\ pc' = "exited"
  /\ exit_code' = 1
  /\ UNCHANGED << env, code, files, cfg >>

\* tree = ast.parse(code); dot = Digraph(); the walk starts at the tree.
GenerateCfgEnter ==
  /\ pc = "generate_cfg"
  /\ code.valid
  /\ tree' = code.ast
  /\ ids' \in IdSchemes
  /\ body' = << >>
  /\ todo' = << ModuleNode >>
  /\ visited' = << >>
  /\ pc' = "walk"
  /\ UNCHANGED << env, code, exit_code, files, runs >>

\* One iteration of `for node in ast.walk(tree)` for a node of class k.
Visit(ks) ==
  /\ pc = "walk"
  /\ todo # << >>
  /\ LET node == Head(todo)
     IN /\ KindOf(tree, node) \in ks
        /\ todo' = Extend(Tail(todo), IterChildNodes(tree, node))
        /\ visited' = Append(visited, node)
        /\ body' = body \o Emit(tree, ids, node)
  /\ UNCHANGED << env, code, exit_code, files, tree, ids, runs, pc >>

Handled == {"FunctionDef", "If", "While", "For"}
AllKinds == {"Module", "FunctionDef", "If", "While", "For", "ClassDef", "Assign",
             "Name", "Constant", "arguments", "Load", "Store"}

VisitFunctionDef == Visit({"FunctionDef"})
VisitIf == Visit({"If"})
VisitWhile == Visit({"While"})
VisitFor == Visit({"For"})
VisitOther == Visit(AllKinds \ Handled)

\* The walk is exhausted: return dot.
Return(to) ==
  /\ pc = "walk"
  /\ todo = << >>
  /\ runs' = Append(runs, [dot |-> body, ids |-> ids])
  /\ pc' = to
  /\ UNCHANGED << env, code, exit_code, files, tree, ids, todo, visited, body >>

GenerateCfgReturn == Return("save_cfg_image")

\* cfg.render(filename="cfg") with format png writes cfg.png.
SaveCfgImage ==
  /\ pc = "save_cfg_image"
  /\ files' = files \cup {"cfg.png"}
  /\ pc' = "visualize_memory_allocation"
  /\ UNCHANGED << env, code, exit_code, cfg >>

\* objgraph.show_backrefs(..., filename="memory_allocation.png").
VisualizeMemoryAllocation ==
  /\ pc = "visualize_memory_allocation"
  /\ files' = files \cup {"memory_allocation.png"}
  /\ pc' = "illustrate_pointers"
  /\ UNCHANGED << env, code, exit_code, cfg >>

\* exec(code) returns; plt.savefig("pointers.png"); main returns.
IllustratePointers ==
  /\ pc = "illustrate_pointers"
  /\ files' = files \cup {"pointers.png"}
  /\ pc' = "exited"
  /\ exit_code' = 0
  /\ UNCHANGED << env, code, cfg >>

\* A statement of the executed code raises an exception: traceback, status 1.
ExecRaises ==
  /\ pc = "illustrate_pointers"
  /\ Len(tree) > 0
  /\ pc' = "exited"
  /\ exit_code' = 1
  /\ UNCHANGED << env, code, files, cfg >>

\* A statement of the executed code raises SystemExit (sys.exit(0), exit()):
\* nothing catches it and the process ends with the status it carries.
ExecSystemExit ==
  /\ pc = "illustrate_pointers"
  /\ Len(tree) > 0
  /\ pc' = "exited"
  /\ exit_code' \in {0, 2}
  /\ UNCHANGED << env, code, files, cfg >>

Next ==
  \/ MainUsage
  \/ MainFileNotFound
  \/ MainLoadCode
  \/ ParseRaises
  \/ GenerateCfgEnter
  \/ VisitFunctionDef
  \/ VisitIf
  \/ VisitWhile
  \/ VisitFor
  \/ VisitOther
  \/ GenerateCfgReturn
  \/ SaveCfgImage
  \/ VisualizeMemoryAllocation
  \/ IllustratePointers
  \/ ExecRaises
  \/ ExecSystemExit

Spec == Init /\ [][Next]_vars

(***************************************************************************)
(* generate_cfg called twice on the same code.                              *)
(***************************************************************************)
InitTwice ==
  /\ pc = "generate_cfg"
  /\ argc = 2
  /\ isfile = TRUE
  /\ \E t \in Trees : code = [loaded |-> TRUE, valid |-> TRUE, ast |-> t]
  /\ exit_code = -1
  /\ files = {}
  /\ tree = << >>
  /\ ids = NoIds
  /\ todo = << >>
  /\ visited = << >>
  /\ body = << >>
  /\ runs = << >>

ReturnFirst == Len(runs) = 0 /\ Return("generate_cfg")
ReturnSecond == Len(runs) = 1 /\ Return("returned")

NextTwice ==
  \/ GenerateCfgEnter
  \/ VisitFunctionDef
  \/ VisitIf
  \/ VisitWhile
  \/ VisitFor
  \/ VisitOther
  \/ ReturnFirst
  \/ ReturnSecond

SpecTwice == InitTwice /\ [][NextTwice]_vars

(***************************************************************************)
(* Vocabulary of the properties.                                            *)
(***************************************************************************)
NodeLines(b) == SelectSeq(b, LAMBDA l : l[1] = "node")
EdgeLines(b) == SelectSeq(b, LAMBDA l : l[1] = "edge")
Range(q) == { q[k] : k \in 1..Len(q) }

RECURSIVE Sum(_, _)
Sum(f, S) == IF S = {} THEN 0
             ELSE LET x == CHOOSE y \in S : TRUE IN f[x] + Sum(f, S \ {x})

ConstructPrefixes == {"Function: ", "If Condition: ", "While Loop: ", "For Loop: "}
StatementPrefixes == {"Statement: ", "Else Statement: "}

\* The functions, ifs, whiles and fors of t.
Constructs(t) == { i \in 1..Len(t) : t[i].kind \in {"FunctionDef", "If", "While", "For"} }

ThenStmts(t, c) == { j \in 1..Len(t) : t[j].parent = c /\ t[j].field = "body" }
ElseStmts(t, c) == { j \in 1..Len(t) : t[j].parent = c /\ t[j].field = "orelse" }

\* The immediate statements construct c introduces: its body and, for an if,
\* its else-branch.
Introduced(t, c) ==
  IF c \in Constructs(t)
    THEN ThenStmts(t, c) \cup (IF t[c].kind = "If" THEN ElseStmts(t, c) ELSE {})
    ELSE {}

\* j is an immediate statement of a construct.
IsIntroduced(t, j) == t[j].parent # 0 /\ j \in Introduced(t, t[j].parent)

Key(sch, j) == Str(sch.base + sch.dir * (3 * j))
IsStmtKey(t, sch, k) == \E j \in 1..Len(t) : Key(sch, j) = k
StmtOf(t, sch, k) == CHOOSE j \in 1..Len(t) : Key(sch, j) = k

Depth(t, i) == Cardinality(Ancestors(t, i)) - 1
NodeDepth(t, n) == IF n.e = 0 THEN Depth(t, n.s) ELSE Depth(t, n.s) + 1

\* generate_cfg has returned; Dot is the graph it returned last.
Returned == runs # << >>
Dot == runs[Len(runs)].dot
DotIds == runs[Len(runs)].ids

\* The only construct of the tree is c.
Sole(t, c) == Constructs(t) = {c}

(***************************************************************************)
(* C1.  Every function, if, while and for of the tree, at any depth and    *)
(* under any parent, contributes exactly one node line declared with a     *)
(* construct label, and for each immediate statement of its body (and of   *)
(* the else-branch of an if) one node line with a statement label and one  *)
(* edge from the construct to that statement; the graph holds nothing else.*)
(***************************************************************************)
C1_EveryConstructContributes ==
  Returned =>
    LET N == NodeLines(Dot)
        E == EdgeLines(Dot)
        cs == Constructs(tree)
        k(j) == Key(DotIds, j)
    IN /\ Len(N) = Sum([c \in cs |-> 1 + Cardinality(Introduced(tree, c))], cs)
       /\ Len(E) = Sum([c \in cs |-> Cardinality(Introduced(tree, c))], cs)
       /\ \A c \in cs :
            /\ Len(SelectSeq(N, LAMBDA l : l[2] = k(c) /\ l[3][1] \in ConstructPrefixes)) = 1
            /\ \A j \in Introduced(tree, c) :
                 /\ Len(SelectSeq(N, LAMBDA l : l[2] = k(j) /\ l[3][1] \in StatementPrefixes)) = 1
                 /\ Len(SelectSeq(E, LAMBDA l : l[2] = k(c) /\ l[3] = k(j))) = 1

\* A returned graph of a tree with a method of a class that holds a nested loop
\* or branch.
C1_Witness ==
  /\ Returned
  /\ \E c, d \in Constructs(tree) :
       /\ tree[c].parent # 0
       /\ tree[tree[c].parent].kind = "ClassDef"
       /\ tree[d].parent = c

(***************************************************************************)
(* C2 as stated.  Every node other than a root-level function node has an  *)
(* incoming edge from the node of its enclosing function, if, while or for.*)
(***************************************************************************)
C2_Original ==
  Returned =>
    \A j \in 1..Len(tree) :
      (/\ \E l \in Range(NodeLines(Dot)) : l[2] = Key(DotIds, j)
       /\ ~(tree[j].kind = "FunctionDef" /\ tree[j].parent = 0))
      => /\ tree[j].parent \in Constructs(tree)
         /\ EdgeLine(Key(DotIds, tree[j].parent), Key(DotIds, j)) \in Range(EdgeLines(Dot))

(***************************************************************************)
(* C2 amended.  A node whose statement is an immediate statement of a      *)
(* construct (body, or else-branch of an if) has exactly one incoming      *)
(* edge, and it comes from that construct; every other node (a construct   *)
(* at module level, in a class body or in the else of a loop) has none.    *)
(***************************************************************************)
C2_IncomingEdgeFromIntroducer ==
  Returned =>
    LET E == EdgeLines(Dot)
    IN \A j \in 1..Len(tree) :
         (\E l \in Range(NodeLines(Dot)) : l[2] = Key(DotIds, j))
         => IF IsIntroduced(tree, j)
              THEN /\ Len(SelectSeq(E, LAMBDA l : l[3] = Key(DotIds, j))) = 1
                   /\ \A l \in Range(E) :
                        l[3] = Key(DotIds, j) => l[2] = Key(DotIds, tree[j].parent)
              ELSE Len(SelectSeq(E, LAMBDA l : l[3] = Key(DotIds, j))) = 0

\* A returned graph with an if at module level and a construct without any
\* incoming edge that is not a root-level function.
C2_Witness ==
  /\ Returned
  /\ \E c \in Constructs(tree) :
       /\ tree[c].kind = "If"
       /\ tree[c].parent = 0
       /\ Introduced(tree, c) # {}
       /\ \A l \in Range(EdgeLines(Dot)) : l[3] # Key(DotIds, c)

(***************************************************************************)
(* C3 as stated.  No node that is the target of an edge is also the source *)
(* of an edge (depth at most 2).                                            *)
(***************************************************************************)
C3_Original ==
  Returned =>
    \A a, b \in Range(EdgeLines(Dot)) : a[3] # b[2]

(***************************************************************************)
(* C3 amended.  The graph is a forest that follows the nesting of the      *)
(* tree: every edge goes from a construct to one of its immediate          *)
(* statements, no node has two incoming edges, and a node is both target   *)
(* and source of edges exactly when its statement is a construct that is   *)
(* an immediate statement of another construct.                             *)
(***************************************************************************)
C3_ForestFollowsNesting ==
  Returned =>
    LET E == EdgeLines(Dot)
        k(j) == Key(DotIds, j)
    IN /\ \A l \in Range(E) :
            /\ IsStmtKey(tree, DotIds, l[2]) /\ IsStmtKey(tree, DotIds, l[3])
            /\ StmtOf(tree, DotIds, l[3]) \in Introduced(tree, StmtOf(tree, DotIds, l[2]))
       /\ \A j \in 1..Len(tree) : Len(SelectSeq(E, LAMBDA l : l[3] = k(j))) <= 1
       /\ \A j \in 1..Len(tree) :
            ((\E l \in Range(E) : l[3] = k(j)) /\ (\E l \in Range(E) : l[2] = k(j)))
            <=> (j \in Constructs(tree) /\ IsIntroduced(tree, j))

\* A returned graph of a tree with an if inside a while inside a function.
C3_Witness ==
  /\ Returned
  /\ \E f, w, i \in Constructs(tree) :
       /\ tree[f].kind = "FunctionDef"
       /\ tree[w].kind = "While" /\ tree[w].parent = f /\ tree[w].field = "body"
       /\ tree[i].kind = "If" /\ tree[i].parent = w /\ tree[i].field = "body"

(***************************************************************************)
(* C4 as stated.  The node list never holds two entries with the same      *)
(* identity key.                                                            *)
(***************************************************************************)
C4_Original ==
  LET N == NodeLines(body)
  IN \A a, b \in 1..Len(N) : a < b => N[a][2] # N[b][2]

(***************************************************************************)
(* C4 amended.  The walk yields no statement or expression node twice      *)
(* (only the shared Load and Store objects recur).  Every key declared is  *)
(* the key of a statement, and a statement is declared at most once with a *)
(* statement label and at most once with a construct label: two entries    *)
(* share a key only for a construct that is an immediate statement of      *)
(* another construct, whose statement entry comes first and whose construct*)
(* entry, with another label, second; once the graph is returned every     *)
(* such construct has both.                                                 *)
(***************************************************************************)
C4_DeclaredAtMostTwice ==
  LET N == NodeLines(body)
  IN /\ LET V == SelectSeq(visited, LAMBDA n : n.s >= 0)
        IN Cardinality(Range(V)) = Len(V)
     /\ \A l \in Range(N) : IsStmtKey(tree, ids, l[2])
     /\ \A a, b \in 1..Len(N) :
          (a < b /\ N[a][2] = N[b][2])
          => /\ N[a][3][1] \in StatementPrefixes
             /\ N[b][3][1] \in ConstructPrefixes
             /\ StmtOf(tree, ids, N[a][2]) \in Constructs(tree)
             /\ IsIntroduced(tree, StmtOf(tree, ids, N[a][2]))
     /\ \A j \in 1..Len(tree) :
          /\ Len(SelectSeq(N, LAMBDA l : l[2] = Key(ids, j))) <= 2
          /\ (pc # "walk" /\ Returned /\ j \in Constructs(tree) /\ IsIntroduced(tree, j))
             => Len(SelectSeq(N, LAMBDA l : l[2] = Key(ids, j))) = 2

\* A returned graph in which a nested construct is declared twice.
C4_Witness ==
  /\ Returned
  /\ pc # "walk"
  /\ \E j \in Constructs(tree) :
       /\ IsIntroduced(tree, j)
       /\ Len(SelectSeq(NodeLines(body), LAMBDA l : l[2] = Key(ids, j))) = 2

(***************************************************************************)
(* C5.  When the only construct of the input is an if with A statements in *)
(* its body and B in its else-branch, the graph has 1 + A + B nodes with   *)
(* distinct keys and A + B edges, every edge starts at the node of the if, *)
(* and every else statement is labelled 'Else Statement: ...', a label no  *)
(* statement of the body ('Statement: ...') carries.                        *)
(***************************************************************************)
C5_IfElseShape ==
  Returned =>
    \A c \in 1..Len(tree) :
      (Sole(tree, c) /\ tree[c].kind = "If")
      => LET N == NodeLines(Dot)
             E == EdgeLines(Dot)
             A == ThenStmts(tree, c)
             B == ElseStmts(tree, c)
             lab(j) == { l[3] : l \in { x \in Range(N) : x[2] = Key(DotIds, j) } }
         IN /\ Len(N) = 1 + Cardinality(A) + Cardinality(B)
            /\ Cardinality({ l[2] : l \in Range(N) }) = Len(N)
            /\ Len(E) = Cardinality(A) + Cardinality(B)
            /\ \A l \in Range(E) : l[2] = Key(DotIds, c)
            /\ \A j \in A : \A x \in lab(j) : x[1] = "Statement: "
            /\ \A j \in B : \A x \in lab(j) : x[1] = "Else Statement: "
            /\ \A i \in A : \A j \in B : lab(i) # {} /\ lab(j) # {} /\ lab(i) \cap lab(j) = {}

\* A returned graph of a lone if with statements in both branches.
C5_Witness ==
  /\ Returned
  /\ \E c \in 1..Len(tree) :
       /\ Sole(tree, c) /\ tree[c].kind = "If"
       /\ ThenStmts(tree, c) # {}
       /\ Cardinality(ElseStmts(tree, c)) >= 2

(***************************************************************************)
(* C6.  When the only construct of the input is a while or a for with N    *)
(* body statements, the graph has 1 + N nodes and N edges, all of them     *)
(* from the loop node and none of them to it; the loop node of a for is    *)
(* labelled with the dump of its target, that of a while with the dump of  *)
(* its test.  In any graph, no edge leads to a loop node from the loop     *)
(* itself or from a statement inside the loop.                              *)
(***************************************************************************)
C6_LoopShape ==
  Returned =>
    LET N == NodeLines(Dot)
        E == EdgeLines(Dot)
    IN /\ \A c \in 1..Len(tree) :
            (Sole(tree, c) /\ tree[c].kind \in {"While", "For"})
            => /\ Len(N) = 1 + Cardinality(ThenStmts(tree, c))
               /\ Len(E) = Cardinality(ThenStmts(tree, c))
               /\ \A l \in Range(E) : l[2] = Key(DotIds, c) /\ l[3] # Key(DotIds, c)
               /\ N[1][2] = Key(DotIds, c)
               /\ N[1][3][1] = (IF tree[c].kind = "For" THEN "For Loop: " ELSE "While Loop: ")
               /\ ExprFields(tree[c].kind)[1].field
                    = (IF tree[c].kind = "For" THEN "target" ELSE "test")
               /\ N[1][3][2] = Dump(tree, [s |-> c, e |-> 1])
       /\ \A c \in 1..Len(tree) : \A l \in Range(E) :
            (tree[c].kind \in {"While", "For"} /\ l[3] = Key(DotIds, c))
            => /\ IsStmtKey(tree, DotIds, l[2])
               /\ c \notin Ancestors(tree, StmtOf(tree, DotIds, l[2]))

\* A returned graph of a lone for-loop with two body statements.
C6_Witness ==
  /\ Returned
  /\ \E c \in 1..Len(tree) :
       /\ Sole(tree, c) /\ tree[c].kind = "For"
       /\ Cardinality(ThenStmts(tree, c)) >= 2
       /\ Len(EdgeLines(Dot)) >= 2

(***************************************************************************)
(* C7.  A tree without function, if, while or for gives a graph without    *)
(* nodes and edges; at every moment of the walk the graph holds exactly    *)
(* the lines of the constructs visited so far, so visiting a node of any   *)
(* other class has added no node and no edge.                               *)
(***************************************************************************)
C7_OnlyConstructsEmit ==
  LET seen == { c \in Constructs(tree) : Stmt(c) \in Range(visited) }
  IN /\ Constructs(tree) = {} => body = << >>
     /\ (Returned /\ Constructs(tree) = {}) => Dot = << >>
     /\ Len(NodeLines(body)) = Sum([c \in seen |-> 1 + Cardinality(Introduced(tree, c))], seen)
     /\ Len(EdgeLines(body)) = Sum([c \in seen |-> Cardinality(Introduced(tree, c))], seen)

\* A returned empty graph of a module made of a class and assignments.
C7_Witness ==
  /\ Returned
  /\ Len(tree) >= 3
  /\ Constructs(tree) = {}
  /\ \E j \in 1..Len(tree) : tree[j].kind = "ClassDef"
  /\ Len(visited) > Len(tree)
  /\ Dot = << >>

(***************************************************************************)
(* C8.  With the path argument missing or not naming a file the process    *)
(* exits with status 1 before the code is loaded and before any stage runs,*)
(* so no image is written; and the process exits with status 0 only after  *)
(* all three images have been written.                                      *)
(***************************************************************************)
C8_ExitZeroOnlyWithThreeImages ==
  /\ (argc < 2 \/ ~isfile)
     => /\ ~code.loaded
        /\ runs = << >>
        /\ files = {}
        /\ pc = "exited" => exit_code = 1
  /\ (pc = "exited" /\ exit_code = 0) => files = Images

(***************************************************************************)
(* C9.  Two calls of generate_cfg on the same code return graphs with the  *)
(* same multiset of node labels and the same number of edges, and the      *)
(* second graph is the first one line by line with every key replaced by   *)
(* the key the second run gives to the same syntax node.                    *)
(***************************************************************************)
C9_RunsIsomorphic ==
  Len(runs) = 2 =>
    LET b1 == runs[1].dot
        b2 == runs[2].dot
        s1 == runs[1].ids
        s2 == runs[2].ids
        phi(k) == Key(s2, StmtOf(tree, s1, k))
        labels(b) == { l[3] : l \in Range(NodeLines(b)) }
    IN /\ Len(b1) = Len(b2)
       /\ Len(EdgeLines(b1)) = Len(EdgeLines(b2))
       /\ \A L \in labels(b1) \cup labels(b2) :
            Len(SelectSeq(NodeLines(b1), LAMBDA l : l[3] = L))
              = Len(SelectSeq(NodeLines(b2), LAMBDA l : l[3] = L))
       /\ \A k \in 1..Len(b1) :
            /\ b1[k][1] = b2[k][1]
            /\ IsStmtKey(tree, s1, b1[k][2])
            /\ b2[k][2] = phi(b1[k][2])
            /\ IF b1[k][1] = "node"
                 THEN b2[k][3] = b1[k][3]
                 ELSE IsStmtKey(tree, s1, b1[k][3]) /\ b2[k][3] = phi(b1[k][3])

\* Two returned graphs of runs that gave the nodes different addresses.
C9_Witness ==
  /\ Len(runs) = 2
  /\ runs[1].ids # runs[2].ids
  /\ Len(EdgeLines(runs[1].dot)) >= 2
  /\ runs[1].dot # runs[2].dot

RECURSIVE PreOrder(_, _)
PreOrder(t, n) ==
  LET kids == IterChildNodes(t, n)
  IN << n >> \o Flatten([k \in 1..Len(kids) |-> PreOrder(t, kids[k])])

ConstructLines(b) == SelectSeq(NodeLines(b), LAMBDA l : l[3][1] \in ConstructPrefixes)

TreeNodes(t) ==
  {ModuleNode} \cup { Stmt(i) : i \in 1..Len(t) }
    \cup UNION { { [s |-> i, e |-> k] : k \in 1..Len(ExprFields(t[i].kind)) } : i \in 1..Len(t) }

ParentNode(t, n) == IF n.e # 0 THEN Stmt(n.s) ELSE Stmt(t[n.s].parent)

NamesWith(t, c) ==
  { n \in TreeNodes(t) : n.e # 0 /\ ExprFields(t[n.s].kind)[n.e].ctx = c }

====
